---- MODULE Spec2Model ----
(***************************************************************************)
(* A model of recover_file (src/fix_timelapse.py): the box scanner, the    *)
(* length-prefixed record extraction loop, the mux step and the cleanup of *)
(* the temporary intermediate file.  The input file is a sequence of       *)
(* bytes; every read, unpack and seek is modelled on those bytes.          *)
(***************************************************************************)
EXTENDS Integers, Sequences, FiniteSets, TLC

(***************************************************************************)
(* Bounds of the model.                                                    *)
(***************************************************************************)
\* number of length-prefixed records placed in the payload region
MaxRecs == 2
\* number of 8-byte boxes stored after the mdat box
MaxTrail == 2
\* declared 32-bit sizes 0, 2..MaxBoxSize of a non-payload box
MaxBoxSize == 10
\* declared 64-bit extended sizes 0..MaxExtSize of a non-payload box
MaxExtSize == 17

(***************************************************************************)
(* Program constants.                                                      *)
(***************************************************************************)
SPS == << 103, 100, 0, 40, 172, 217, 64, 120, 2, 39, 229, 192, 90, 129, 1, 2,
          160, 0, 0, 3, 0, 32, 0, 0, 6, 1, 227, 6, 50, 192 >>
PPS == << 104, 234, 227, 203, 34, 192 >>
START_CODE == << 0, 0, 0, 1 >>
\* the ceiling of the NAL length sanity check
NAL_LIMIT == 20000000
\* the tag "mdat" and a tag that is not the payload tag ("free")
MDAT == << 109, 100, 97, 116 >>
FREE == << 102, 114, 101, 101 >>

(***************************************************************************)
(* Decoding.  Values of 2^30 and more are represented by Sat: the code     *)
(* only compares sizes with 0, 1 and NAL_LIMIT and seeks by them, and a    *)
(* seek by 2^30 or more lands beyond the end of every file of the model.   *)
(***************************************************************************)
Sat == 1073741824

Min(a, b) == IF a < b THEN a ELSE b
Max(a, b) == IF a > b THEN a ELSE b

\* struct.unpack(">I", b)[0]
Unpack32(b) ==
    IF b[1] >= 64 THEN Sat
    ELSE b[1] * 16777216 + b[2] * 65536 + b[3] * 256 + b[4]

\* struct.unpack(">Q", b)[0]
Unpack64(b) ==
    IF b[1] # 0 \/ b[2] # 0 \/ b[3] # 0 \/ b[4] # 0 THEN Sat
    ELSE Unpack32(SubSeq(b, 5, 8))

\* f_in.seek(v - 16, 1) raises ValueError when v - 16 does not fit the signed
\* 64-bit file offset, that is when v >= 2^63 + 16
SeekOffsetOverflows(b) ==
    \/ b[1] > 128
    \/ /\ b[1] = 128
       /\ \/ \E i \in 2..7 : b[i] # 0
          \/ b[8] >= 16

\* atom_type.decode("ascii", errors="ignore"): bytes above 127 are dropped
DecodeAscii(b) == SelectSeq(b, LAMBDA x : x < 128)

\* f_in.read(n) at cursor p: the bytes that are there, at most n
ReadAt(f, p, n) == SubSeq(f, p + 1, Min(p + n, Len(f)))

(***************************************************************************)
(* The input files of the model.  An input is described by the box before  *)
(* the payload box, the form of the payload box header, the records of the *)
(* payload, the boxes after the payload box and the number of bytes cut    *)
(* off the end of the file.                                                *)
(***************************************************************************)
Pack32(n) == << (n \div 16777216) % 256, (n \div 65536) % 256,
                (n \div 256) % 256, n % 256 >>
Pack64(n) == << 0, 0, 0, 0 >> \o Pack32(n)
Fill(n) == [i \in 1..n |-> 170]

\* the payload bytes of record i: i bytes, different for every record
NalData(i) == [j \in 1..i |-> 16 * i + j]

RecBytes(i, kind) ==
    CASE kind = "valid"  -> Pack32(i) \o NalData(i)
      [] kind = "zero"   -> Pack32(0)
      [] kind = "toobig" -> Pack32(NAL_LIMIT + 1)

RECURSIVE PayloadBytes(_, _)
PayloadBytes(recs, n) ==
    IF n = 0 THEN << >>
    ELSE PayloadBytes(recs, n - 1) \o RecBytes(n, recs[n])

PreBytes(pre) ==
    CASE pre.kind = "none"   -> << >>
      [] pre.kind = "normal" -> Pack32(pre.size) \o FREE \o Fill(Max(pre.size - 8, 0))
      [] pre.kind = "ext"    -> Pack32(1) \o FREE \o Pack64(pre.size)
                                  \o Fill(Max(pre.size - 16, 0))
      [] pre.kind = "huge"   -> Pack32(1) \o FREE \o [i \in 1..8 |-> 255]

HeaderLen(form) == IF form = "ext" THEN 16 ELSE IF form = "absent" THEN 0 ELSE 8

MdatBytes(form, payload) ==
    CASE form = "absent" -> << >>
      [] form = "zero"   -> Pack32(0) \o MDAT \o payload
      [] form = "exact"  -> Pack32(8 + Len(payload)) \o MDAT \o payload
      [] form = "ext"    -> Pack32(1) \o MDAT \o Pack64(16 + Len(payload)) \o payload

RECURSIVE TrailBytes(_)
TrailBytes(n) == IF n = 0 THEN << >> ELSE Pack32(8) \o FREE \o TrailBytes(n - 1)

FullBytes(in) ==
    PreBytes(in.pre) \o MdatBytes(in.form, PayloadBytes(in.recs, Len(in.recs)))
        \o TrailBytes(in.trail)

FileBytes(in) == SubSeq(FullBytes(in), 1, Len(FullBytes(in)) - in.cut)

PreChoices ==
    { [kind |-> "none", size |-> 0], [kind |-> "huge", size |-> 0] }
      \cup { [kind |-> "normal", size |-> s] : s \in (0..MaxBoxSize) \ {1} }
      \cup { [kind |-> "ext", size |-> s] : s \in 0..MaxExtSize }

RecKinds == { "valid", "zero", "toobig" }
RecLists == UNION { [1..n -> RecKinds] : n \in 0..MaxRecs }

\* inputs that exercise the box scanner: every box before the payload box,
\* every header form, cut at every byte offset
ScanInputs ==
    UNION { { [pre |-> p, form |-> f, recs |-> r, trail |-> 0, cut |-> c] :
                c \in 0..(Len(PreBytes(p)) + Len(MdatBytes(f, PayloadBytes(r, Len(r))))) } :
            p \in PreChoices, f \in { "absent", "zero", "exact", "ext" },
            r \in { << "valid" >> } }

\* inputs that exercise the extraction loop: a well-formed box before the
\* payload box, every list of records, boxes after the payload box, cut at
\* every byte offset of the payload and of what follows it
FrameInputs ==
    UNION { { [pre |-> p, form |-> f, recs |-> r, trail |-> t, cut |-> c] :
                c \in 0..(Len(PayloadBytes(r, Len(r))) + 8 * t) } :
            p \in { [kind |-> "normal", size |-> MaxBoxSize] },
            f \in { "zero", "exact", "ext" }, r \in RecLists,
            t \in 0..MaxTrail }

Inputs == ScanInputs \cup { in \in FrameInputs : in.form = "zero" => in.trail = 0 }

(***************************************************************************)
(* The state of one run of recover_file.                                   *)
(***************************************************************************)
VARIABLES
    input,       \* the description the input file was built from
    file,        \* the bytes of the input file
    pc,          \* the position of the run in recover_file
    pos,         \* the read cursor of f_in
    out,         \* the bytes written to the temporary intermediate file
    hdrAt,       \* the offset of the box header read last (-1: none yet)
    atom_size,   \* atom_size
    atom_form,   \* "normal", or "ext" when atom_size came from the 64-bit field
    found_mdat,  \* found_mdat
    nal_len,     \* nal_len
    nal_data,    \* nal_data
    nUnits,      \* the number of records written by the extraction loop
    stop,        \* why the extraction loop ended
    rescanned,   \* a box header was read twice from the same offset
    scanned,     \* the offsets box headers were read from
    tempExists,  \* the temporary intermediate file exists
    muxCalls,    \* the number of times the mux step was invoked
    result,      \* what recover_file returned, or the exception that left it
    fault        \* the failure the environment injected into the run

vars == << input, file, pc, pos, out, hdrAt, atom_size, atom_form, found_mdat,
           nal_len, nal_data, nUnits, stop, rescanned, scanned, tempExists,
           muxCalls, result, fault >>

scanVars == << hdrAt, atom_size, atom_form, found_mdat, scanned, rescanned >>
nalVars == << nal_len, nal_data, nUnits, stop >>
envVars == << tempExists, muxCalls, result, fault >>

Init ==
    /\ input \in Inputs
    /\ file = FileBytes(input)
    /\ pc = "mkstemp"
    /\ pos = 0
    /\ out = << >>
    /\ hdrAt = -1
    /\ atom_size = 0
    /\ atom_form = "normal"
    /\ found_mdat = FALSE
    /\ nal_len = 0
    /\ nal_data = << >>
    /\ nUnits = 0
    /\ stop = "none"
    /\ rescanned = FALSE
    /\ scanned = {}
    /\ tempExists = FALSE
    /\ muxCalls = 0
    /\ result = "none"
    /\ fault = "none"

(***************************************************************************)
(* The steps of recover_file.                                              *)
(***************************************************************************)
\* tempfile.mkstemp creates the temporary file (TEMP_DIR is None)
MkTemp ==
    /\ pc = "mkstemp"
    /\ tempExists' = TRUE
    /\ pc' = "open"
    /\ UNCHANGED << input, file, pos, out, scanVars, nalVars, muxCalls, result, fault >>

\* open(input_path, "rb"), open(temp_h264, "wb")
OpenFiles ==
    /\ pc = "open"
    /\ pos' = 0
    /\ out' = << >>
    /\ tempExists' = TRUE
    /\ pc' = "headers"
    /\ UNCHANGED << input, file, scanVars, nalVars, muxCalls, result, fault >>

\* the two parameter records, each after a start code
WriteHeaders ==
    /\ pc = "headers"
    /\ out' = out \o START_CODE \o SPS \o START_CODE \o PPS
    /\ pc' = "scan"
    /\ UNCHANGED << input, file, pos, scanVars, nalVars, envVars >>

\* header = f_in.read(8), the unpack and the test of the tag
ReadHeader ==
    /\ pc = "scan"
    /\ LET header == ReadAt(file, pos, 8) IN
         /\ pos' = pos + Len(header)
         /\ IF Len(header) < 8
              THEN /\ pc' = "close"
                   /\ UNCHANGED scanVars
              ELSE /\ hdrAt' = pos
                   /\ scanned' = scanned \cup { pos }
                   /\ rescanned' = (rescanned \/ pos \in scanned)
                   /\ atom_size' = Unpack32(SubSeq(header, 1, 4))
                   /\ atom_form' = "normal"
                   /\ IF DecodeAscii(SubSeq(header, 5, 8)) = MDAT
                        THEN /\ found_mdat' = TRUE
                             /\ pc' = IF atom_size' = 1 THEN "large" ELSE "nal_len"
                        ELSE /\ found_mdat' = found_mdat
                             /\ pc' = "skip"
    /\ UNCHANGED << input, file, out, nalVars, envVars >>

\* the 64-bit size of the payload box: large_size = f_in.read(8) and its
\* unpack, which raises struct.error on fewer than 8 bytes
ReadLargeSize ==
    /\ pc = "large"
    /\ LET large_size == ReadAt(file, pos, 8) IN
         /\ pos' = pos + Len(large_size)
         /\ IF Len(large_size) < 8
              THEN /\ result' = "struct.error"
                   /\ pc' = "finally"
                   /\ UNCHANGED << atom_size, atom_form >>
              ELSE /\ atom_size' = Unpack64(large_size)
                   /\ atom_form' = "ext"
                   /\ pc' = "nal_len"
                   /\ UNCHANGED result
    /\ UNCHANGED << input, file, out, hdrAt, found_mdat, scanned, rescanned,
                    nalVars, tempExists, muxCalls, fault >>

\* a faulty seek: the header bytes already read are not taken off the size
SeekForwardAbsolute(cur, size, hdr) == cur + size

\* f_in.seek(size - hdr, 1) with the cursor at cur
SeekForward(cur, size, hdr) == cur + size - hdr

\* the skip of a box that is not the payload box
SkipAtom ==
    /\ pc = "skip"
    /\ IF atom_size = 1
         THEN LET large_size == ReadAt(file, pos, 8) IN
                IF Len(large_size) < 8
                  THEN /\ result' = "struct.error"
                       /\ pc' = "finally"
                       /\ pos' = pos + Len(large_size)
                       /\ UNCHANGED << atom_size, atom_form >>
                  ELSE /\ atom_size' = Unpack64(large_size)
                       /\ atom_form' = "ext"
                       /\ IF SeekOffsetOverflows(large_size)
                            THEN /\ result' = "ValueError"
                                 /\ pc' = "finally"
                                 /\ pos' = pos + 8
                            ELSE IF SeekForward(pos + 8, atom_size', 16) < 0
                            THEN /\ result' = "False"
                                 /\ pc' = "finally"
                                 /\ pos' = pos + 8
                            ELSE /\ pos' = SeekForward(pos + 8, atom_size', 16)
                                 /\ pc' = "scan"
                                 /\ UNCHANGED result
         ELSE IF atom_size = 0
         THEN /\ pc' = "close"
              /\ UNCHANGED << pos, atom_size, atom_form, result >>
         ELSE IF SeekForward(pos, atom_size, 8) < 0
         THEN /\ result' = "False"
              /\ pc' = "finally"
              /\ UNCHANGED << pos, atom_size, atom_form >>
         ELSE /\ pos' = SeekForward(pos, atom_size, 8)
              /\ pc' = "scan"
              /\ UNCHANGED << atom_size, atom_form, result >>
    /\ UNCHANGED << input, file, out, hdrAt, found_mdat, scanned, rescanned,
                    nalVars, tempExists, muxCalls, fault >>

\* a faulty sanity check: a length of 0 passes
SuspiciousOnlyAboveLimit(n) == n > NAL_LIMIT

\* the sanity check of a record length: nal_len > 20_000_000 or nal_len == 0
Suspicious(n) == n > NAL_LIMIT \/ n = 0

\* length_bytes = f_in.read(4), its unpack and the sanity check
ReadNalLen ==
    /\ pc = "nal_len"
    /\ LET length_bytes == ReadAt(file, pos, 4) IN
         /\ pos' = pos + Len(length_bytes)
         /\ IF Len(length_bytes) < 4
              THEN /\ stop' = "eof"
                   /\ pc' = "close"
                   /\ UNCHANGED nal_len
              ELSE /\ nal_len' = Unpack32(length_bytes)
                   /\ IF Suspicious(nal_len')
                        THEN /\ stop' = "corrupt"
                             /\ pc' = "close"
                        ELSE /\ stop' = stop
                             /\ pc' = "nal_data"
    /\ UNCHANGED << input, file, out, scanVars, nal_data, nUnits, envVars >>

\* a faulty test: a record cut short is taken as whole
NeverShort(data, n) == FALSE

\* the test for a record cut short by the end of the file:
\* len(nal_data) < nal_len
ShortRead(data, n) == Len(data) < n

\* nal_data = f_in.read(nal_len) and the test of its length
ReadNalData ==
    /\ pc = "nal_data"
    /\ nal_data' = ReadAt(file, pos, nal_len)
    /\ pos' = pos + Len(nal_data')
    /\ IF ShortRead(nal_data', nal_len)
         THEN /\ stop' = "truncated"
              /\ pc' = "close"
         ELSE /\ stop' = stop
              /\ pc' = "nal_write"
    /\ UNCHANGED << input, file, out, scanVars, nal_len, nUnits, envVars >>

\* f_out.write(START_CODE), f_out.write(nal_data)
WriteNal ==
    /\ pc = "nal_write"
    /\ out' = out \o START_CODE \o nal_data
    /\ nUnits' = nUnits + 1
    /\ pc' = "nal_len"
    /\ UNCHANGED << input, file, pos, scanVars, nal_len, nal_data, stop, envVars >>

\* the end of the with block: both files are closed
CloseFiles ==
    /\ pc = "close"
    /\ pc' = "check"
    /\ UNCHANGED << input, file, pos, out, scanVars, nalVars, envVars >>

\* if not found_mdat: remove the temporary file and return False
CheckFound ==
    /\ pc = "check"
    /\ IF found_mdat
         THEN /\ pc' = "mux"
              /\ UNCHANGED << tempExists, result >>
         ELSE /\ tempExists' = FALSE
              /\ result' = "False"
              /\ pc' = "finally"
    /\ UNCHANGED << input, file, pos, out, scanVars, nalVars, muxCalls, fault >>

\* subprocess.run(ffmpeg_cmd): exit status 0, another exit status, or an
\* OSError because the program cannot be started
Mux ==
    /\ pc = "mux"
    /\ muxCalls' = muxCalls + 1
    /\ \E outcome \in { "zero", "nonzero", "oserror" } :
         result' = IF outcome = "zero" THEN "True" ELSE "False"
    /\ pc' = "finally"
    /\ UNCHANGED << input, file, pos, out, scanVars, nalVars, tempExists, fault >>

\* the steps inside the try block of the extraction loop
ExtractionSteps == { "nal_len", "nal_data", "nal_write" }
\* the steps that read, write, seek, open or close a file
FileSteps == { "open", "headers", "scan", "large", "skip", "close" } \cup ExtractionSteps

\* a read, write or seek raises OSError: inside the extraction loop it is
\* caught there and the loop ends; anywhere else the outer handler returns False
IOFailure ==
    /\ pc \in FileSteps
    /\ pc = "skip" => atom_size # 0
    /\ fault' = "io"
    /\ IF pc \in ExtractionSteps
         THEN /\ stop' = "ioerror"
              /\ pc' = "close"
              /\ UNCHANGED result
         ELSE /\ result' = "False"
              /\ pc' = "finally"
              /\ UNCHANGED stop
    /\ UNCHANGED << input, file, pos, out, scanVars, nal_len, nal_data, nUnits,
                    tempExists, muxCalls >>

\* KeyboardInterrupt during a blocking call: re-raised by the handler of the
\* extraction loop, caught by no other handler
Interrupt ==
    /\ pc \in FileSteps \cup { "mux" }
    /\ pc = "skip" => atom_size # 0
    /\ fault' = "interrupt"
    /\ result' = "KeyboardInterrupt"
    /\ pc' = "finally"
    /\ UNCHANGED << input, file, pos, out, scanVars, nalVars, tempExists, muxCalls >>

\* a faulty finally block: the temporary file is left in place
FinallyKeepsTemp ==
    /\ pc = "finally"
    /\ pc' = "done"
    /\ UNCHANGED << input, file, pos, out, scanVars, nalVars, envVars >>

\* the finally block: the temporary file is removed if it exists
Finally ==
    /\ pc = "finally"
    /\ tempExists' = FALSE
    /\ pc' = "done"
    /\ UNCHANGED << input, file, pos, out, scanVars, nalVars, muxCalls, result, fault >>

Next ==
    \/ MkTemp
    \/ OpenFiles
    \/ WriteHeaders
    \/ ReadHeader
    \/ ReadLargeSize
    \/ SkipAtom
    \/ ReadNalLen
    \/ ReadNalData
    \/ WriteNal
    \/ CloseFiles
    \/ CheckFound
    \/ Mux
    \/ IOFailure
    \/ Interrupt
    \/ Finally

Spec == Init /\ [][Next]_vars

\* the run keeps taking steps for as long as one is possible
FairSpec == Spec /\ WF_vars(Next)

(***************************************************************************)
(* What the claims speak of, stated on the description of the input.       *)
(***************************************************************************)
AfterLoop == { "close", "check", "mux", "finally", "done" }

\* a box the scanner is meant to skip: none, size >= 8, or extended size >= 16
ValidPre(pre) ==
    \/ pre.kind = "none"
    \/ pre.kind = "normal" /\ pre.size >= 8
    \/ pre.kind = "ext" /\ pre.size >= 16

\* the offset of the first byte after the payload box's header
PayloadAt(in) == Len(PreBytes(in.pre)) + HeaderLen(in.form)

\* the offset of the length field of record k
RecordAt(in, k) == PayloadAt(in) + Len(PayloadBytes(in.recs, k - 1))

\* the payload box is there with its whole header, after a skippable box
\* (file holds the bytes of the input in: file = FileBytes(in))
HasPayload(in) ==
    /\ ValidPre(in.pre)
    /\ in.form # "absent"
    /\ Len(file) >= PayloadAt(in)

FirstValid(in, k) == \A i \in 1..k : in.recs[i] = "valid"

DeclaredLen(in, k) ==
    CASE in.recs[k] = "valid"  -> k
      [] in.recs[k] = "zero"   -> 0
      [] in.recs[k] = "toobig" -> NAL_LIMIT + 1

\* start code + record i for i = 1..k
RECURSIVE AnnexB(_)
AnnexB(k) == IF k = 0 THEN << >> ELSE AnnexB(k - 1) \o START_CODE \o NalData(k)

\* the stream of the two parameter units and the first k records
Stream(k) == START_CODE \o SPS \o START_CODE \o PPS \o AnnexB(k)

\* a well-formed input: a skippable box or none, the payload box, N valid
\* records in it, no byte missing
WellFormed(in) ==
    /\ HasPayload(in)
    /\ in.cut = 0
    /\ FirstValid(in, Len(in.recs))

\* a length field of 0 or above the ceiling follows k valid records
CorruptAfter(in, k) ==
    /\ k < Len(in.recs)
    /\ FirstValid(in, k)
    /\ in.recs[k + 1] \in { "zero", "toobig" }
    /\ HasPayload(in)
    /\ Len(file) >= RecordAt(in, k + 1) + 4

\* record k + 1 follows k valid records and declares more bytes than remain
TruncatedAfter(in, k) ==
    /\ k < Len(in.recs)
    /\ FirstValid(in, k)
    /\ HasPayload(in)
    /\ Len(file) >= RecordAt(in, k + 1) + 4
    /\ DeclaredLen(in, k + 1) > Len(file) - (RecordAt(in, k + 1) + 4)

(***************************************************************************)
(* The claims.                                                             *)
(***************************************************************************)
\* C1: for every well-formed input whose payload box holds N valid records,
\* the stream handed to the mux step is start code + SPS, start code + PPS
\* and start code + record i for i = 1..N, and nothing else.
C1_WellFormedStream ==
    (pc = "mux" /\ fault = "none" /\ WellFormed(input))
        => out = Stream(Len(input.recs))

\* C1, narrowed to the inputs whose payload box is the last box of the file.
C1_PayloadBoxLast ==
    (pc = "mux" /\ fault = "none" /\ WellFormed(input) /\ input.trail = 0)
        => out = Stream(Len(input.recs))

\* C2: a run that finds no mdat box returns False, never invokes the mux
\* step and leaves no temporary file.
C2_NoPayloadFails ==
    (pc = "done" /\ fault = "none" /\ ~found_mdat)
        => (result = "False" /\ muxCalls = 0 /\ ~tempExists)

\* C3: when a length field of 0 or above the ceiling follows K valid records,
\* the loop stops at that field with exactly the 2 parameter units and the K
\* records written, and the mux step is invoked afterwards.
C3_CorruptLengthStops ==
    \A k \in 0..MaxRecs :
        (pc \in AfterLoop /\ CorruptAfter(input, k)) =>
            /\ stop = "corrupt" =>
                   (out = Stream(k) /\ nUnits = k /\ pos = RecordAt(input, k + 1) + 4)
            /\ fault = "none" => stop = "corrupt"
            /\ (pc = "done" /\ fault = "none") => muxCalls = 1

C3_Witness ==
    /\ pc = "done"
    /\ fault = "none"
    /\ CorruptAfter(input, 1)
    /\ input.recs[2] = "zero"
    /\ stop = "corrupt"
    /\ nUnits = 1
    /\ muxCalls = 1

\* C4: a record that declares more bytes than remain in the file is dropped
\* whole: no start code and no partial bytes are written for it, the units
\* written before it stay, and the run goes on to the mux step.
C4_TruncatedRecordDropped ==
    \A k \in 0..MaxRecs :
        (pc \in AfterLoop /\ TruncatedAfter(input, k)) =>
            /\ stop \in { "truncated", "corrupt" } => (out = Stream(k) /\ nUnits = k)
            /\ fault = "none" =>
                   stop = (IF input.recs[k + 1] = "valid" THEN "truncated" ELSE "corrupt")
            /\ (pc = "done" /\ fault = "none") => muxCalls = 1

C4_Witness ==
    /\ pc = "done"
    /\ fault = "none"
    /\ TruncatedAfter(input, 1)
    /\ stop = "truncated"
    /\ Len(nal_data) = 1
    /\ nal_len = 2
    /\ out = Stream(1)
    /\ muxCalls = 1

C6_IOFailureAborts ==
    (pc = "done" /\ fault = "io") => (muxCalls = 0 /\ result = "False")

\* C7: after the skip of a box at offset p the cursor is at p + size (size
\* >= 8) or at p + extended size (extended size >= 16); a payload box right
\* after one such box is found, the cursor on the first byte after its header.
C7_SkipLandsOnNextBox ==
    /\ (/\ pc = "scan"
        /\ hdrAt >= 0
        /\ atom_size < Sat
        /\ \/ atom_form = "normal" /\ atom_size >= 8
           \/ atom_form = "ext" /\ atom_size >= 16)
           => pos = hdrAt + atom_size
    /\ (pc = "nal_len" /\ nUnits = 0 /\ input.pre.kind # "none" /\ HasPayload(input))
           => pos = PayloadAt(input)
    /\ (pc \in AfterLoop /\ fault = "none" /\ input.pre.kind # "none" /\ HasPayload(input))
           => found_mdat

C7_Witness ==
    /\ pc = "nal_len"
    /\ nUnits = 0
    /\ found_mdat
    /\ input.pre.kind = "ext"
    /\ input.pre.size = 17
    /\ input.form = "ext"
    /\ pos = 33

\* C8: when the mdat box declares a valid size and ends before the end of
\* the file, no byte at or beyond the end of the box is read by the loop.
C8_StopsAtBoxEnd ==
    (/\ found_mdat
     /\ atom_size >= (IF atom_form = "ext" THEN 16 ELSE 8)
     /\ hdrAt + atom_size < Len(file))
        => pos <= hdrAt + atom_size

\* C9: the cursor never returns to an offset a box header was read from, so
\* the two loops terminate.
C9_CursorNeverReturns == ~rescanned

\* C9, as termination: every run reaches the end of recover_file.
C9_Terminates == <>(pc = "done")

\* C10: recover_file ends by returning True or False; only a user interrupt
\* leaves it as an exception.
C10_ReturnsBoolean ==
    pc = "done" => result \in { "True", "False", "KeyboardInterrupt" }

====
